---- MODULE Spec2Model ----
(***************************************************************************)
(* Maestro renderer: the two "type the name to confirm" dialogs            *)
(* (DeleteAgentConfirmModal, EraseConfirmationModal) and the worktree      *)
(* selection section (WorktreeRunSection).                                 *)
(*                                                                         *)
(* Strings are sequences of one-character strings.  Each component has its *)
(* own specification (SpecDelete, SpecErase, SpecWorktree); the variables  *)
(* of the other components stay at their initial value.                    *)
(***************************************************************************)
EXTENDS Integers, Sequences, FiniteSets, TLC

VARIABLES
    rev,               \* which of the two DeleteAgentConfirmModal definitions is mounted
    agentName,         \* DeleteAgentConfirmModal prop
    confirmationText,  \* DeleteAgentConfirmModal useState('')
    sessionName,       \* EraseConfirmationModal prop
    typedName,         \* EraseConfirmationModal useState('')
    lastEvent,         \* the DOM event most recently delivered to a modal
    calls,             \* callback props invoked, in order, while handling lastEvent
    sessions,          \* WorktreeRunSection prop: the sessions open in Maestro
    basePath,          \* activeSession.worktreeConfig?.basePath ("" when absent)
    worktreeTarget,    \* WorktreeRunSection prop held by the parent
    selectedValue,     \* WorktreeRunSection useState('')
    availableWorktrees,\* WorktreeRunSection useState([]) (the paths of the entries)
    isScanning,        \* WorktreeRunSection useState(false)
    scans,             \* scanWorktreeDirectory promises not yet settled
    createPROnCompletion, \* WorktreeRunSection useState(false)
    lastScan,          \* the scan started or settled by the latest step, if any
    sshRemoteId,       \* activeSession.sshRemoteId ("" when undefined)
    mounted,           \* WorktreeRunSection is mounted
    emitted,           \* targets handed to onWorktreeTargetChange by the latest step
    mtSessions,        \* useMergeTransferHandlers: the session store (id -> session)
    activeSessionId,   \* the session store's active session
    mergeSessionModalOpen,  \* modal store
    sendToAgentModalOpen,   \* modal store
    transferSourceAgent,    \* useState(null): tool type of the source, "null" when null
    transferTargetAgent,    \* useState(null): tool type of the target, "null" when null
    transferState,     \* state of useSendToAgentWithSessions
    pendingTransfer,   \* target of the handleSendToAgent call in progress, or "none"
    spawnPending,      \* sessions whose agent process is still to be spawned
    spawned,           \* sessions for which window.maestro.process.spawn was called
    resetTimer,        \* the delayed resetTransfer of the transfer's onSessionCreated is armed
    sendResult,        \* what the latest handleSendToAgent call returned
    sentryModule,      \* the cached @sentry/electron/main module, "null" when unset
    sentryReports,     \* what the Sentry module has been handed, in order
    sentryOutcome,     \* how the latest call of a Sentry utility went
    cachedPlatform,    \* useOsPlatform's module-level cache, "null" when unset
    hooks,             \* the useOsPlatform instances
    apiAvailable,      \* window.maestro.os.getPlatform exists
    memoryMonitorInterval, \* id of the interval of the memory monitor, 0 when null
    timers,            \* the intervals set and not cleared
    ticks,             \* the callbacks of the monitor that are awaiting addBreadcrumb
    memOut,            \* what the latest step of the monitor recorded or logged
    lastTick,          \* the tick that finished in the latest step, if any
    memEvent,          \* the latest call of the monitor's API
    uiStore,           \* the state fields of useUIStore
    uiCall,            \* the latest call of a uiStore action and its argument
    uiSteps,           \* number of uiStore actions called so far
    systemEnv,         \* the system default environment of a spawn
    globalEnv,         \* the global shell environment variables of Settings
    sessionEnv,        \* the session-specific environment variables
    processEnv         \* the environment handed to the process spawned last

vars == <<rev, agentName, confirmationText, sessionName, typedName, lastEvent,
          calls, sessions, basePath, worktreeTarget, selectedValue,
          availableWorktrees, isScanning, scans, createPROnCompletion, lastScan,
          sshRemoteId, mounted, emitted, mtSessions, activeSessionId,
          mergeSessionModalOpen, sendToAgentModalOpen, transferSourceAgent,
          transferTargetAgent, transferState, pendingTransfer, spawnPending,
          spawned, resetTimer, sendResult, sentryModule, sentryReports,
          sentryOutcome, cachedPlatform, hooks, apiAvailable,
          memoryMonitorInterval, timers, ticks, memOut, lastTick, memEvent,
          uiStore, uiCall, uiSteps, systemEnv, globalEnv, sessionEnv, processEnv>>

deleteVars == <<rev, agentName, confirmationText>>
eraseVars == <<sessionName, typedName>>
worktreeVars == <<sessions, basePath, worktreeTarget, selectedValue,
                  availableWorktrees, isScanning, scans, createPROnCompletion,
                  lastScan, sshRemoteId, mounted, emitted>>
mergeVars == <<mtSessions, activeSessionId, mergeSessionModalOpen,
               sendToAgentModalOpen, transferSourceAgent, transferTargetAgent,
               transferState, pendingTransfer, spawnPending, spawned, resetTimer,
               sendResult>>
memoryVars == <<memoryMonitorInterval, timers, ticks, memOut, lastTick, memEvent>>
sentryVars == <<sentryModule, sentryReports, sentryOutcome, memoryVars>>
uiVars == <<uiStore, uiCall, uiSteps>>
envVars == <<systemEnv, globalEnv, sessionEnv, processEnv>>
platformVars == <<cachedPlatform, hooks, apiAvailable, uiVars, envVars>>
hookVars == <<cachedPlatform, hooks, apiAvailable>>

(***************************************************************************)
(* Bounds                                                                  *)
(***************************************************************************)
MaxLen == 2
MaxSessions == 2
MaxScans == 2
MaxTabs == 3
MaxReports == 3
MaxHooks == 3
MaxTimers == 2
MaxTicks == 2
HeapSpread == 1
MaxUiSteps == 3
MaxIndex == 2
MaxSpawns == 2

(***************************************************************************)
(* Strings                                                                 *)
(***************************************************************************)
Alphabet == {"A", "a", "b", " "}

Strings == UNION {[1..n -> Alphabet] : n \in 0..MaxLen}

\* String.prototype.toLowerCase
toLowerCase(s) == [i \in 1..Len(s) |-> IF s[i] = "A" THEN "a" ELSE s[i]]

RECURSIVE trimStart(_)
trimStart(s) == IF s # <<>> /\ Head(s) = " " THEN trimStart(Tail(s)) ELSE s

RECURSIVE trimEnd(_)
trimEnd(s) ==
    IF s # <<>> /\ s[Len(s)] = " " THEN trimEnd(SubSeq(s, 1, Len(s) - 1)) ELSE s

\* String.prototype.trim
trim(s) == trimEnd(trimStart(s))

(***************************************************************************)
(* DeleteAgentConfirmModal                                                 *)
(***************************************************************************)
Revisions == {1, 2}

isAgentNameMatch_NoLowerCase(text, name) == trim(text) = trim(name)

isAgentNameMatch_AlwaysTrue(text, name) == TRUE

isAgentNameMatch(text, name) ==
    toLowerCase(trim(text)) = toLowerCase(trim(name))

handleConfirm_CloseFirst == <<"onClose", "onConfirm">>

handleConfirm == <<"onConfirm", "onClose">>

handleConfirmAndErase_OnConfirmToo(match) ==
    IF match THEN <<"onConfirm", "onConfirmAndErase", "onClose">> ELSE <<>>

handleConfirmAndErase(match) ==
    IF match THEN <<"onConfirmAndErase", "onClose">> ELSE <<>>

Keys == {"Enter", "Escape", "a"}

handleKeyDown_Twice(key, action) == IF key = "Enter" THEN action \o action ELSE <<>>

\* handleKeyDown(e, action): only Enter runs the action
handleKeyDown(key, action) == IF key = "Enter" THEN action ELSE <<>>

\* the input's onKeyDown: handleInputKeyDown in the first definition, none in
\* the second
handleInputKeyDown(r, key, match) ==
    IF r = 1 /\ key = "Enter" /\ match THEN handleConfirmAndErase(match) ELSE <<>>

\* onKeyDown of the 'Agent + Work Directory' button
agentAndWorkDirKeyDown(r, key, match) ==
    IF r = 1
    THEN IF match THEN handleKeyDown(key, handleConfirmAndErase(match)) ELSE <<>>
    ELSE handleKeyDown(key, handleConfirmAndErase(match))

\* disabled={!isAgentNameMatch}
agentAndWorkDirDisabled(text, name) == ~isAgentNameMatch(text, name)

\* <Modal onClose={...}>: the X button and the Escape key run onClose
ModalClose(onClose) == <<onClose>>

DeleteMatch == isAgentNameMatch(confirmationText, agentName)

Ev(type, target, key) == [type |-> type, target |-> target, key |-> key]

NoEvent == Ev("none", "", "")

DeleteEvent(ev, cs) ==
    /\ lastEvent' = ev
    /\ calls' = cs
    /\ UNCHANGED <<deleteVars, eraseVars, worktreeVars, mergeVars, sentryVars, platformVars>>

setConfirmationText ==
    \E v \in Strings :
        /\ confirmationText' = v
        /\ lastEvent' = Ev("change", "input", "")
        /\ calls' = <<>>
        /\ UNCHANGED <<rev, agentName, eraseVars, worktreeVars, mergeVars, sentryVars,
                       platformVars>>

ClickCancel == DeleteEvent(Ev("click", "Cancel", ""), <<"onClose">>)

KeyDownCancel ==
    \E k \in Keys \ {"Escape"} :
        DeleteEvent(Ev("keydown", "Cancel", k), handleKeyDown(k, <<"onClose">>))

ClickX == DeleteEvent(Ev("click", "X", ""), ModalClose("onClose"))

PressEscape == DeleteEvent(Ev("keydown", "Modal", "Escape"), ModalClose("onClose"))

ClickAgentOnly == DeleteEvent(Ev("click", "AgentOnly", ""), handleConfirm)

KeyDownAgentOnly ==
    \E k \in Keys \ {"Escape"} :
        DeleteEvent(Ev("keydown", "AgentOnly", k), handleKeyDown(k, handleConfirm))

\* a disabled button dispatches no click
ClickAgentAndWorkDir ==
    DeleteEvent(Ev("click", "AgentAndWorkDir", ""),
                IF agentAndWorkDirDisabled(confirmationText, agentName)
                THEN <<>>
                ELSE handleConfirmAndErase(DeleteMatch))

KeyDownAgentAndWorkDir ==
    \E k \in Keys \ {"Escape"} :
        DeleteEvent(Ev("keydown", "AgentAndWorkDir", k),
                    agentAndWorkDirKeyDown(rev, k, DeleteMatch))

KeyDownInput ==
    \E k \in Keys \ {"Escape"} :
        DeleteEvent(Ev("keydown", "input", k), handleInputKeyDown(rev, k, DeleteMatch))

(***************************************************************************)
(* EraseConfirmationModal                                                  *)
(***************************************************************************)
isMatch_Trimmed(typed, name) == trim(typed) = trim(name)

isMatch_IgnoreCase(typed, name) == toLowerCase(typed) = toLowerCase(name)

isMatch(typed, name) == typed = name

eraseHandleConfirm_Twice(match) ==
    IF match THEN <<"onConfirm", "onConfirm">> ELSE <<>>

eraseHandleConfirm(match) == IF match THEN <<"onConfirm">> ELSE <<>>

\* onKeyDown of 'Yes, Erase Directory': isMatch && handleKeyDown(e, handleConfirm)
eraseConfirmKeyDown(key, match) ==
    IF match THEN handleKeyDown(key, eraseHandleConfirm(match)) ELSE <<>>

\* disabled={!isMatch}
eraseConfirmDisabled(typed, name) == ~isMatch(typed, name)

\* <FormInput onSubmit submitEnabled>: Enter submits when submitEnabled
FormInputKeyDown(key, submitEnabled, onSubmit) ==
    IF key = "Enter" /\ submitEnabled THEN onSubmit ELSE <<>>

EraseMatch == isMatch(typedName, sessionName)

EraseEvent(ev, cs) ==
    /\ lastEvent' = ev
    /\ calls' = cs
    /\ UNCHANGED <<deleteVars, eraseVars, worktreeVars, mergeVars, sentryVars, platformVars>>

setTypedName ==
    \E v \in Strings :
        /\ typedName' = v
        /\ lastEvent' = Ev("change", "input", "")
        /\ calls' = <<>>
        /\ UNCHANGED <<sessionName, deleteVars, worktreeVars, mergeVars, sentryVars,
                       platformVars>>

EraseClickCancel == EraseEvent(Ev("click", "Cancel", ""), <<"onCancel">>)

EraseKeyDownCancel ==
    \E k \in Keys \ {"Escape"} :
        EraseEvent(Ev("keydown", "Cancel", k), handleKeyDown(k, <<"onCancel">>))

EraseClickX == EraseEvent(Ev("click", "X", ""), ModalClose("onCancel"))

ErasePressEscape ==
    EraseEvent(Ev("keydown", "Modal", "Escape"), ModalClose("onCancel"))

\* a disabled button dispatches no click
EraseClickConfirm ==
    EraseEvent(Ev("click", "Confirm", ""),
               IF eraseConfirmDisabled(typedName, sessionName)
               THEN <<>>
               ELSE eraseHandleConfirm(EraseMatch))

EraseKeyDownConfirm ==
    \E k \in Keys \ {"Escape"} :
        EraseEvent(Ev("keydown", "Confirm", k), eraseConfirmKeyDown(k, EraseMatch))

EraseKeyDownInput ==
    \E k \in Keys \ {"Escape"} :
        EraseEvent(Ev("keydown", "input", k),
                   FormInputKeyDown(k, EraseMatch, eraseHandleConfirm(EraseMatch)))

(***************************************************************************)
(* WorktreeRunSection                                                      *)
(***************************************************************************)
ActiveId == "parent-1"

SessionIds == {"s1", "s2"}

ParentIds == {ActiveId, "other"}

Paths == {"/wt/a", "/wt/b"}

BasePaths == {"", "/wt"}

SessionStates == {"idle", "busy", "connecting"}

\* the sessions other than activeSession; activeSession.cwd is the project
\* directory, which is no subdirectory of the worktree base path
SessionRecords ==
    [id : SessionIds, cwd : Paths, parentSessionId : ParentIds, state : SessionStates]

UniqueIds(ss) == \A i, j \in DOMAIN ss : ss[i].id = ss[j].id => i = j

IsChild(s) == s.parentSessionId = ActiveId

worktreeChildren_AllSessions(ss) == ss

worktreeChildren(ss) == SelectSeq(ss, IsChild)

\* the strings of the selector are sequences of tokens, so that a prefix can
\* be tested and cut off
Str(x) == <<x>>

CREATE_NEW == Str("__create_new__")

CLOSED_PREFIX == Str("__closed__:")

\* String.prototype.startsWith
startsWith(v, prefix) ==
    Len(v) >= Len(prefix) /\ SubSeq(v, 1, Len(prefix)) = prefix

\* String.prototype.slice(n)
slice(v, n) == SubSeq(v, n + 1, Len(v))

NullTarget ==
    [mode |-> "null", sessionId |-> <<>>, worktreePath |-> <<>>,
     createPROnCompletion |-> FALSE]

Target(mode, sessionId, worktreePath, prFlag) ==
    [mode |-> mode, sessionId |-> sessionId, worktreePath |-> worktreePath,
     createPROnCompletion |-> prFlag]

isEnabled(target) == target # NullTarget

Range(f) == {f[i] : i \in DOMAIN f}

SshRemoteIds == {"", "remote-1"}

scanDeps_NoBasePath(target, bp, ssh, ss) ==
    <<isEnabled(target), "", ssh, Len(worktreeChildren(ss))>>

\* the dependency array of the scan effect
scanDeps(target, bp, ssh, ss) ==
    <<isEnabled(target), bp, ssh, Len(worktreeChildren(ss))>>

\* what the latest step did to a scan: started it (with which arguments) or
\* settled it (whether its callback wrote, what it returned, and whether the
\* scan that wrote was stale or not the most recently started one)
NoScan ==
    [settled |-> "none", applied |-> FALSE, result |-> {}, staleWrite |-> FALSE,
     basePath |-> "", sshRemoteId |-> ""]

ScanStarted(bp, ssh) ==
    [NoScan EXCEPT !.settled = "started", !.basePath = bp, !.sshRemoteId = ssh]

ScanSettled(how, sc, applied, result) ==
    [NoScan EXCEPT !.settled = how, !.applied = applied, !.result = result,
                   !.staleWrite = applied /\ (sc.stale \/ ~sc.latest)]

\* what a scan's result depends on: the toggle, the base path, the SSH
\* remote and the number of worktree children
ScanInputs(target, bp, ssh, ss) ==
    <<target = NullTarget, bp, ssh,
      Cardinality({i \in DOMAIN ss : ss[i].parentSessionId = ActiveId})>>

\* bookkeeping on the pending scans: a scan is stale once an input changed
\* after it was started
Aged(target, bp, ssh, ss) ==
    LET changed == ScanInputs(target, bp, ssh, ss)
                     # ScanInputs(worktreeTarget, basePath, sshRemoteId, sessions)
    IN {[sc EXCEPT !.stale = sc.stale \/ changed] : sc \in scans}

scanEffectStarts_WhenOff(target, bp) == bp # ""

\* if (!isEnabled || !basePath) { setAvailableWorktrees([]); return; }
scanEffectStarts(target, bp) == isEnabled(target) /\ bp # ""

\* the scan effect: the cleanup of the previous run, then the body with the
\* props and state of the new render
scanEffect(target, bp, ssh, ss) ==
    LET cleaned == {[sc EXCEPT !.cancelled = TRUE] : sc \in Aged(target, bp, ssh, ss)}
    IN
    IF ~scanEffectStarts(target, bp)
    THEN /\ scans' = cleaned
         /\ availableWorktrees' = {}
         /\ lastScan' = NoScan
         /\ UNCHANGED isScanning
    ELSE /\ scans' = {[sc EXCEPT !.latest = FALSE] : sc \in cleaned} \cup
                {[openPaths |-> {s.cwd : s \in Range(worktreeChildren(ss))},
                  cancelled |-> FALSE, stale |-> FALSE, latest |-> TRUE]}
         /\ isScanning' = TRUE
         /\ lastScan' = ScanStarted(bp, ssh)
         /\ UNCHANGED availableWorktrees

\* a render with new props: the scan effect runs when a dependency changed
Rerender(target, bp, ssh, ss) ==
    IF scanDeps(target, bp, ssh, ss)
         # scanDeps(worktreeTarget, basePath, sshRemoteId, sessions)
    THEN scanEffect(target, bp, ssh, ss)
    ELSE /\ scans' = Aged(target, bp, ssh, ss)
         /\ lastScan' = NoScan
         /\ UNCHANGED <<availableWorktrees, isScanning>>

ModalVarsUnchanged ==
    UNCHANGED <<deleteVars, eraseVars, lastEvent, calls, mergeVars, sentryVars,
                platformVars>>

\* the parent keeps the target it was handed last
ParentTarget(em) == IF em = <<>> THEN worktreeTarget ELSE em[Len(em)]

firstAvailable_AnyState(ss) ==
    LET free == worktreeChildren(ss)
    IN IF free = <<>> THEN "" ELSE free[1].id

\* worktreeChildren.find((s) => s.state !== 'busy' && s.state !== 'connecting')?.id
firstAvailable(ss) ==
    LET free == SelectSeq(worktreeChildren(ss),
                          LAMBDA s : s.state # "busy" /\ s.state # "connecting")
    IN IF free = <<>> THEN "" ELSE free[1].id

\* handleToggle; the parent stores the target it is handed
handleToggle ==
    /\ mounted
    /\ Cardinality(scans) < MaxScans
    /\ LET defaultValue == IF firstAvailable(sessions) # ""
                           THEN Str(firstAvailable(sessions)) ELSE CREATE_NEW
           target == IF isEnabled(worktreeTarget) THEN NullTarget
                     ELSE IF defaultValue = CREATE_NEW
                          THEN Target("create-new", <<>>, <<>>, createPROnCompletion)
                          ELSE Target("existing-open", defaultValue, <<>>,
                                      createPROnCompletion)
       IN /\ selectedValue' = IF isEnabled(worktreeTarget) THEN <<>> ELSE defaultValue
          /\ emitted' = <<target>>
          /\ worktreeTarget' = target
          /\ Rerender(target, basePath, sshRemoteId, sessions)
    /\ UNCHANGED <<sessions, basePath, sshRemoteId, createPROnCompletion, mounted>>
    /\ ModalVarsUnchanged

emitChange_AlwaysOpen(value, prFlag) ==
    IF value # <<>> THEN <<Target("existing-open", value, <<>>, prFlag)>> ELSE <<>>

\* emitChange: the targets handed to onWorktreeTargetChange
emitChange(value, prFlag) ==
    IF value = CREATE_NEW
    THEN <<Target("create-new", <<>>, <<>>, prFlag)>>
    ELSE IF startsWith(value, CLOSED_PREFIX)
         THEN <<Target("existing-closed", <<>>, slice(value, Len(CLOSED_PREFIX)),
                       prFlag)>>
         ELSE IF value # <<>>
              THEN <<Target("existing-open", value, <<>>, prFlag)>>
              ELSE <<>>

\* the values of the options of the selector that are not disabled
SelectOptions ==
    {Str(s.id) : s \in {c \in Range(worktreeChildren(sessions)) :
                           c.state # "busy" /\ c.state # "connecting"}}
      \cup {CLOSED_PREFIX \o Str(p) : p \in availableWorktrees}
      \cup {CREATE_NEW}

\* handleSelectChange; the selector is rendered while the toggle is on
handleSelectChange ==
    \E val \in SelectOptions :
        /\ mounted
        /\ isEnabled(worktreeTarget)
        /\ selectedValue' = val
        /\ emitted' = emitChange(val, createPROnCompletion)
        /\ worktreeTarget' = ParentTarget(emitted')
        /\ Rerender(worktreeTarget', basePath, sshRemoteId, sessions)
        /\ UNCHANGED <<sessions, basePath, sshRemoteId, createPROnCompletion, mounted>>
        /\ ModalVarsUnchanged

\* handlePRChange(!createPROnCompletion); the checkbox is rendered while the
\* toggle is on
handlePRChange ==
    /\ mounted
    /\ isEnabled(worktreeTarget)
    /\ createPROnCompletion' = ~createPROnCompletion
    /\ emitted' = IF isEnabled(worktreeTarget) /\ selectedValue # <<>>
                  THEN emitChange(selectedValue, createPROnCompletion')
                  ELSE <<>>
    /\ worktreeTarget' = ParentTarget(emitted')
    /\ Rerender(worktreeTarget', basePath, sshRemoteId, sessions)
    /\ UNCHANGED <<sessions, basePath, sshRemoteId, selectedValue, mounted>>
    /\ ModalVarsUnchanged

SessionsChange(ss) ==
    /\ mounted
    /\ Cardinality(scans) < MaxScans
    /\ sessions' = ss
    /\ emitted' = <<>>
    /\ Rerender(worktreeTarget, basePath, sshRemoteId, ss)
    /\ UNCHANGED <<basePath, sshRemoteId, worktreeTarget, selectedValue,
                   createPROnCompletion, mounted>>
    /\ ModalVarsUnchanged

\* the session store: a session is opened
OpenSession ==
    \E s \in SessionRecords :
        /\ Len(sessions) < MaxSessions
        /\ UniqueIds(Append(sessions, s))
        /\ SessionsChange(Append(sessions, s))

\* the session store: a session is closed
CloseSession ==
    \E i \in DOMAIN sessions :
        SessionsChange(SubSeq(sessions, 1, i - 1) \o
                       SubSeq(sessions, i + 1, Len(sessions)))

\* the session store: one field of a session (state, cwd or parent) is
\* updated in place
UpdateSession ==
    \E i \in DOMAIN sessions :
        \/ \E v \in SessionStates \ {sessions[i].state} :
              SessionsChange([sessions EXCEPT ![i].state = v])
        \/ \E v \in Paths \ {sessions[i].cwd} :
              SessionsChange([sessions EXCEPT ![i].cwd = v])
        \/ \E v \in ParentIds \ {sessions[i].parentSessionId} :
              SessionsChange([sessions EXCEPT ![i].parentSessionId = v])

\* activeSession.worktreeConfig.basePath is changed
SetBasePath ==
    \E bp \in BasePaths \ {basePath} :
        /\ mounted
        /\ Cardinality(scans) < MaxScans
        /\ basePath' = bp
        /\ emitted' = <<>>
        /\ Rerender(worktreeTarget, bp, sshRemoteId, sessions)
        /\ UNCHANGED <<sessions, sshRemoteId, worktreeTarget, selectedValue,
                       createPROnCompletion, mounted>>
        /\ ModalVarsUnchanged

\* activeSession.sshRemoteId / sessionSshRemoteConfig.remoteId is changed
SetSshRemote ==
    \E ssh \in SshRemoteIds \ {sshRemoteId} :
        /\ mounted
        /\ Cardinality(scans) < MaxScans
        /\ sshRemoteId' = ssh
        /\ emitted' = <<>>
        /\ Rerender(worktreeTarget, basePath, ssh, sessions)
        /\ UNCHANGED <<sessions, basePath, worktreeTarget, selectedValue,
                       createPROnCompletion, mounted>>
        /\ ModalVarsUnchanged

\* the component unmounts: the cleanup of the scan effect runs, and the state
\* of the component is discarded
Unmount ==
    /\ mounted
    /\ mounted' = FALSE
    /\ scans' = {[sc EXCEPT !.cancelled = TRUE, !.stale = TRUE] : sc \in scans}
    /\ emitted' = <<>>
    /\ lastScan' = NoScan
    /\ selectedValue' = <<>>
    /\ availableWorktrees' = {}
    /\ isScanning' = FALSE
    /\ createPROnCompletion' = FALSE
    /\ UNCHANGED <<sessions, basePath, sshRemoteId, worktreeTarget>>
    /\ ModalVarsUnchanged

\* if (cancelled) return;
thenApplies(sc) == ~sc.cancelled

\* scanWorktreeDirectory resolves: the .then callback
ScanResolved ==
    \E sc \in scans, gitSubdirs \in SUBSET Paths :
        /\ scans' = scans \ {sc}
        /\ IF ~thenApplies(sc)
           THEN UNCHANGED <<availableWorktrees, isScanning>>
           ELSE /\ availableWorktrees' = {p \in gitSubdirs : p \notin sc.openPaths}
                /\ isScanning' = FALSE
        /\ lastScan' = ScanSettled("resolved", sc, thenApplies(sc),
                                   IF thenApplies(sc) THEN gitSubdirs ELSE {})
        /\ emitted' = <<>>
        /\ UNCHANGED <<sessions, basePath, sshRemoteId, worktreeTarget,
                       selectedValue, createPROnCompletion, mounted>>
        /\ ModalVarsUnchanged

afterRejection_StillScanning == [availableWorktrees |-> {}, isScanning |-> TRUE]

\* setAvailableWorktrees([]); setIsScanning(false);
afterRejection == [availableWorktrees |-> {}, isScanning |-> FALSE]

\* scanWorktreeDirectory rejects: the .catch callback
ScanRejected ==
    \E sc \in scans :
        /\ scans' = scans \ {sc}
        /\ IF ~thenApplies(sc)
           THEN UNCHANGED <<availableWorktrees, isScanning>>
           ELSE /\ availableWorktrees' = afterRejection.availableWorktrees
                /\ isScanning' = afterRejection.isScanning
        /\ lastScan' = ScanSettled("rejected", sc, thenApplies(sc), {})
        /\ emitted' = <<>>
        /\ UNCHANGED <<sessions, basePath, sshRemoteId, worktreeTarget,
                       selectedValue, createPROnCompletion, mounted>>
        /\ ModalVarsUnchanged

(***************************************************************************)
(* useMergeTransferHandlers                                                *)
(***************************************************************************)
MTSessionIds == {"session-1", "target-session"}

NewSessionId == "new-session"

\* the ids a caller may pass: those of the store and one that is in no store
TargetIds == MTSessionIds \cup {"nonexistent-session"}

NoResult == [success |-> FALSE, error |-> "", newSessionId |-> "", newTabId |-> 0]

Failure(error) == [NoResult EXCEPT !.error = error]

Success(sessionId, tabId) ==
    [NoResult EXCEPT !.success = TRUE, !.newSessionId = sessionId, !.newTabId = tabId]

\* what a handler does to the log of the latest event
MergeEvent(ev, cs) ==
    /\ lastEvent' = ev
    /\ calls' = cs
    /\ UNCHANGED <<deleteVars, eraseVars, worktreeVars, sentryVars, platformVars>>

\* handleMergeWith(tabId): switches to the tab and opens the merge modal
handleMergeWith ==
    /\ ~mergeSessionModalOpen
    /\ mergeSessionModalOpen' = TRUE
    /\ sendResult' = NoResult
    /\ MergeEvent(Ev("call", "handleMergeWith", ""), <<"setMergeSessionModalOpen(true)">>)
    /\ UNCHANGED <<mtSessions, activeSessionId, sendToAgentModalOpen,
                   transferSourceAgent, transferTargetAgent, transferState,
                   pendingTransfer, spawnPending, spawned, resetTimer>>

\* handleOpenSendToAgentModal(tabId): switches to the tab and opens the modal
handleOpenSendToAgentModal ==
    /\ ~sendToAgentModalOpen
    /\ sendToAgentModalOpen' = TRUE
    /\ sendResult' = NoResult
    /\ MergeEvent(Ev("call", "handleOpenSendToAgentModal", ""),
                  <<"setSendToAgentModalOpen(true)">>)
    /\ UNCHANGED <<mtSessions, activeSessionId, mergeSessionModalOpen,
                   transferSourceAgent, transferTargetAgent, transferState,
                   pendingTransfer, spawnPending, spawned, resetTimer>>

MergeResults == {"success", "failure"}

handleMergeCalls_ToastAlways(result) ==
    <<"setMergeSessionModalOpen(false)", "executeMerge", "notifyToast:error:Merge Failed">>

\* handleMerge: the calls it makes, given what executeMerge resolves to
handleMergeCalls(result) ==
    <<"setMergeSessionModalOpen(false)", "executeMerge">> \o
        (IF result = "failure" THEN <<"notifyToast:error:Merge Failed">> ELSE <<>>)

\* handleMerge(targetSessionId, targetTabId, options)
handleMerge ==
    \E target \in MTSessionIds, result \in MergeResults :
        /\ mergeSessionModalOpen' = FALSE
        /\ sendResult' = NoResult
        /\ MergeEvent(Ev("call", "handleMerge", result), handleMergeCalls(result))
        /\ UNCHANGED <<mtSessions, activeSessionId, sendToAgentModalOpen,
                       transferSourceAgent, transferTargetAgent, transferState,
                       pendingTransfer, spawnPending, spawned, resetTimer>>

\* merge onSessionCreated({sessionId, ...}): a merge that created a session
mergeOnSessionCreated ==
    /\ activeSessionId' = NewSessionId
    /\ mergeSessionModalOpen' = FALSE
    /\ sendResult' = NoResult
    /\ MergeEvent(Ev("callback", "merge.onSessionCreated", NewSessionId),
                  <<"setActiveSessionId", "setMergeSessionModalOpen(false)",
                    "notifyToast:success:Session Merged", "notification.show">>)
    /\ UNCHANGED <<mtSessions, sendToAgentModalOpen, transferSourceAgent,
                   transferTargetAgent, transferState, pendingTransfer,
                   spawnPending, spawned, resetTimer>>

\* merge onMergeComplete(sourceTabId, result): a merge into an existing session
mergeOnMergeComplete ==
    \E target \in DOMAIN mtSessions :
        /\ activeSessionId' = target
        /\ sendResult' = NoResult
        /\ MergeEvent(Ev("callback", "merge.onMergeComplete", target),
                      <<"setActiveSessionId", "notifyToast:success:Context Merged">>)
        /\ UNCHANGED <<mtSessions, mergeSessionModalOpen, sendToAgentModalOpen,
                       transferSourceAgent, transferTargetAgent, transferState,
                       pendingTransfer, spawnPending, spawned, resetTimer>>

transferOnSessionCreatedCalls_ResetFirst ==
    <<"resetTransfer", "setActiveSessionId", "setSendToAgentModalOpen(false)",
      "notifyToast:success:Context Transferred">>

\* transfer onSessionCreated(sessionId, sessionName): the calls made at once;
\* resetTransfer is left to a timer of 1500 ms
transferOnSessionCreatedCalls ==
    <<"setActiveSessionId", "setSendToAgentModalOpen(false)",
      "notifyToast:success:Context Transferred", "setTimeout(1500)">>

ResetDelayMs == 1500

\* what resetTransfer does to the state of the transfer, when it is called
resetsTransfer(cs) == \E i \in DOMAIN cs : cs[i] = "resetTransfer"

transferOnSessionCreated ==
    /\ activeSessionId' = NewSessionId
    /\ sendToAgentModalOpen' = FALSE
    /\ sendResult' = NoResult
    /\ IF resetsTransfer(transferOnSessionCreatedCalls)
       THEN /\ transferState' = "idle"
            /\ transferSourceAgent' = "null"
            /\ transferTargetAgent' = "null"
            /\ UNCHANGED resetTimer
       ELSE /\ resetTimer' = TRUE
            /\ UNCHANGED <<transferState, transferSourceAgent, transferTargetAgent>>
    /\ MergeEvent(Ev("callback", "transfer.onSessionCreated", NewSessionId),
                  transferOnSessionCreatedCalls)
    /\ UNCHANGED <<mtSessions, mergeSessionModalOpen, pendingTransfer,
                   spawnPending, spawned>>

\* the timer armed by the transfer's onSessionCreated fires
ResetTimerFires ==
    /\ resetTimer
    /\ resetTimer' = FALSE
    /\ transferState' = "idle"
    /\ transferSourceAgent' = "null"
    /\ transferTargetAgent' = "null"
    /\ sendResult' = NoResult
    /\ MergeEvent(Ev("timer", "resetTransfer", ""), <<"resetTransfer">>)
    /\ UNCHANGED <<mtSessions, activeSessionId, mergeSessionModalOpen,
                   sendToAgentModalOpen, pendingTransfer, spawnPending, spawned>>

handleCancelTransferCalls_None == <<>>

handleCancelTransferCalls == <<"cancelTransfer">>

\* handleCancelTransfer
handleCancelTransfer ==
    /\ transferSourceAgent' = "null"
    /\ transferTargetAgent' = "null"
    /\ transferState' = "idle"
    /\ pendingTransfer' = "none"
    /\ sendResult' = NoResult
    /\ MergeEvent(Ev("call", "handleCancelTransfer", transferSourceAgent),
                  handleCancelTransferCalls)
    /\ UNCHANGED <<mtSessions, activeSessionId, mergeSessionModalOpen,
                   sendToAgentModalOpen, spawnPending, spawned, resetTimer>>

\* handleCompleteTransfer
handleCompleteTransfer ==
    /\ transferSourceAgent' = "null"
    /\ transferTargetAgent' = "null"
    /\ transferState' = "idle"
    /\ sendResult' = NoResult
    /\ MergeEvent(Ev("call", "handleCompleteTransfer", transferSourceAgent),
                  <<"resetTransfer">>)
    /\ UNCHANGED <<mtSessions, activeSessionId, mergeSessionModalOpen,
                   sendToAgentModalOpen, pendingTransfer, spawnPending, spawned,
                   resetTimer>>

sendToAgentError_SourceFirst(targetId) ==
    IF mtSessions[activeSessionId].aiTabs = 0 THEN "Source tab not found"
    ELSE IF targetId \notin DOMAIN mtSessions THEN "Target session not found"
    ELSE ""

\* handleSendToAgent: the error it returns before anything is changed, "" if none
sendToAgentError(targetId) ==
    IF targetId \notin DOMAIN mtSessions THEN "Target session not found"
    ELSE IF mtSessions[activeSessionId].aiTabs = 0 THEN "Source tab not found"
    ELSE ""

\* handleSendToAgent(targetSessionId, options), up to the transfer it awaits
handleSendToAgent ==
    \E targetId \in TargetIds :
        /\ pendingTransfer = "none"
        /\ activeSessionId \in DOMAIN mtSessions
        /\ IF sendToAgentError(targetId) # ""
           THEN /\ sendResult' = Failure(sendToAgentError(targetId))
                /\ UNCHANGED <<transferSourceAgent, transferTargetAgent,
                               transferState, pendingTransfer>>
           ELSE /\ sendResult' = NoResult
                /\ transferSourceAgent' = mtSessions[activeSessionId].toolType
                /\ transferTargetAgent' = mtSessions[targetId].toolType
                /\ transferState' = "transferring"
                /\ pendingTransfer' = targetId
        /\ MergeEvent(Ev("call", "handleSendToAgent", targetId), <<>>)
        /\ UNCHANGED <<mtSessions, activeSessionId, mergeSessionModalOpen,
                       sendToAgentModalOpen, spawnPending, spawned, resetTimer>>

sendToAgentSuccessCalls_SpawnFirst ==
    <<"process.spawn", "setSessions", "setSendToAgentModalOpen(false)",
      "setActiveSessionId", "notifyToast:success:Context Sent", "resetTransfer">>

\* handleSendToAgent after a transfer that succeeded: the calls it makes
\* before it returns; the agent is spawned by an async function started last
sendToAgentSuccessCalls ==
    <<"setSessions", "setSendToAgentModalOpen(false)", "setActiveSessionId",
      "notifyToast:success:Context Sent", "resetTransfer">>

spawnsAtOnce(cs) == \E i \in DOMAIN cs : cs[i] = "process.spawn"

\* the transfer awaited by handleSendToAgent succeeds: the rest of the handler
SendToAgentSucceeds ==
    /\ pendingTransfer # "none"
    /\ mtSessions[pendingTransfer].aiTabs < MaxTabs
    /\ mtSessions' = [mtSessions EXCEPT
                        ![pendingTransfer].aiTabs = @ + 1,
                        ![pendingTransfer].state = "busy"]
    /\ sendToAgentModalOpen' = FALSE
    /\ activeSessionId' = pendingTransfer
    /\ transferState' = "idle"
    /\ transferSourceAgent' = "null"
    /\ transferTargetAgent' = "null"
    /\ IF spawnsAtOnce(sendToAgentSuccessCalls)
       THEN /\ spawned' = spawned \cup {pendingTransfer}
            /\ UNCHANGED spawnPending
       ELSE /\ spawnPending' = spawnPending \cup {pendingTransfer}
            /\ UNCHANGED spawned
    /\ sendResult' = Success(pendingTransfer, mtSessions'[pendingTransfer].aiTabs)
    /\ pendingTransfer' = "none"
    /\ MergeEvent(Ev("settle", "handleSendToAgent", "success"), sendToAgentSuccessCalls)
    /\ UNCHANGED <<mergeSessionModalOpen, resetTimer>>

\* the transfer awaited by handleSendToAgent fails
SendToAgentFails ==
    /\ pendingTransfer # "none"
    /\ sendResult' = Failure("Transfer failed")
    /\ transferState' = "error"
    /\ pendingTransfer' = "none"
    /\ MergeEvent(Ev("settle", "handleSendToAgent", "failure"), <<>>)
    /\ UNCHANGED <<mtSessions, activeSessionId, mergeSessionModalOpen,
                   sendToAgentModalOpen, transferSourceAgent, transferTargetAgent,
                   spawnPending, spawned, resetTimer>>

\* the async function started by handleSendToAgent runs
SpawnAgent ==
    \E id \in spawnPending :
        /\ spawnPending' = spawnPending \ {id}
        /\ spawned' = spawned \cup {id}
        /\ sendResult' = NoResult
        /\ MergeEvent(Ev("async", "process.spawn", id), <<"process.spawn">>)
        /\ UNCHANGED <<mtSessions, activeSessionId, mergeSessionModalOpen,
                       sendToAgentModalOpen, transferSourceAgent,
                       transferTargetAgent, transferState, pendingTransfer,
                       resetTimer>>

(***************************************************************************)
(* Sentry utilities of the main process                                    *)
(***************************************************************************)
SentryFunctions == {"captureException", "captureMessage", "addBreadcrumb"}

NoOutcome ==
    [fn |-> "", settled |-> "none", importTried |-> FALSE, importFailed |-> FALSE,
     logged |-> FALSE]

\* logger.debug in a catch block returns normally
loggerDebug == "returned"

\* the catch block of a utility: how the promise of the call settles
catchBlock(fn) ==
    IF fn = "addBreadcrumb" THEN "resolved"
    ELSE IF loggerDebug = "returned" THEN "resolved" ELSE "rejected"

cachedAfterImport_Always(importOk) == "loaded"

\* if (!sentryModule) { const sentry = await import(...); sentryModule = sentry; }
cachedAfterImport(importOk) == IF importOk THEN "loaded" ELSE "null"

\* captureException / captureMessage / addBreadcrumb: one call, given whether
\* the dynamic import succeeds and whether the Sentry function returns
SentryCall ==
    \E fn \in SentryFunctions, importOk \in BOOLEAN, callOk \in BOOLEAN :
        LET tries == sentryModule = "null"
            module == IF tries THEN cachedAfterImport(importOk) ELSE sentryModule
            failed == (tries /\ ~importOk) \/ ~callOk
        IN /\ tries \/ importOk
           /\ (tries /\ ~importOk) => callOk
           /\ failed \/ Len(sentryReports) < MaxReports
           /\ sentryModule' = module
           /\ sentryReports' = IF failed THEN sentryReports
                               ELSE Append(sentryReports, fn)
           /\ sentryOutcome' =
                [fn |-> fn,
                 settled |-> IF failed THEN catchBlock(fn) ELSE "resolved",
                 importTried |-> tries,
                 importFailed |-> tries /\ ~importOk,
                 logged |-> failed /\ fn # "addBreadcrumb"]
           /\ UNCHANGED <<deleteVars, eraseVars, worktreeVars, mergeVars,
                          platformVars, memoryVars, lastEvent, calls>>

(***************************************************************************)
(* Memory monitoring of the main process                                   *)
(***************************************************************************)
DefaultThresholdMB == 500

DefaultIntervalMs == 60000

ThresholdsMB == {DefaultThresholdMB, DefaultThresholdMB + 1}

IntervalsMs == {DefaultIntervalMs, 1000}

\* process.memoryUsage().heapUsed, in units of half a megabyte
HeapUsedHalfMBs ==
    (2 * DefaultThresholdMB - HeapSpread) .. (2 * DefaultThresholdMB + 2 + HeapSpread)

\* Math.round(heapUsed / 1024 / 1024) of a heap given in half megabytes
heapUsedMB(halves) == (halves + 1) \div 2

NoMemEvent == [fn |-> "none", thresholdMB |-> 0, intervalMs |-> 0]

NoTick == [heapUsedMB |-> 0, thresholdMB |-> 0, did |-> <<>>]

OtherThanMemoryUnchanged ==
    UNCHANGED <<deleteVars, eraseVars, worktreeVars, mergeVars, platformVars,
                sentryReports, sentryOutcome, lastEvent, calls>>

startsInterval_Always(current) == TRUE

\* if (memoryMonitorInterval) { return; }
startsInterval(current) == current = 0

\* startMemoryMonitoring(thresholdMB, intervalMs)
startMemoryMonitoring ==
    \E thresholdMB \in ThresholdsMB, intervalMs \in IntervalsMs :
        /\ Cardinality(timers) < MaxTimers
        /\ IF startsInterval(memoryMonitorInterval)
           THEN LET id == CHOOSE n \in 1 .. MaxTimers + 1 :
                            /\ \A t \in timers : t.id # n
                            /\ \A m \in 1 .. n - 1 : \E t \in timers : t.id = m
                IN /\ timers' = timers \cup {[id |-> id, thresholdMB |-> thresholdMB,
                                              intervalMs |-> intervalMs]}
                   /\ memoryMonitorInterval' = id
           ELSE UNCHANGED <<timers, memoryMonitorInterval>>
        /\ memEvent' = [fn |-> "start", thresholdMB |-> thresholdMB,
                        intervalMs |-> intervalMs]
        /\ memOut' = <<>>
        /\ lastTick' = NoTick
        /\ UNCHANGED <<ticks, sentryModule>>
        /\ OtherThanMemoryUnchanged

\* stopMemoryMonitoring()
stopMemoryMonitoring ==
    /\ IF memoryMonitorInterval # 0
       THEN /\ timers' = {t \in timers : t.id # memoryMonitorInterval}
            /\ memoryMonitorInterval' = 0
       ELSE UNCHANGED <<timers, memoryMonitorInterval>>
    /\ memEvent' = [NoMemEvent EXCEPT !.fn = "stop"]
    /\ memOut' = <<>>
    /\ lastTick' = NoTick
    /\ UNCHANGED <<ticks, sentryModule>>
    /\ OtherThanMemoryUnchanged

exceedsThreshold_OrEqual(mb, thresholdMB) == mb >= thresholdMB

\* if (heapUsedMB > thresholdMB)
exceedsThreshold(mb, thresholdMB) == mb > thresholdMB

\* addBreadcrumb('memory', ..., level) up to its first await: with the module
\* cached the breadcrumb is handed to Sentry (or the call throws and is
\* swallowed) at once, otherwise the import is awaited
breadcrumbCall(level, module, callOk) ==
    <<"addBreadcrumb:" \o level>> \o
        (IF module = "loaded" /\ callOk THEN <<"recorded:" \o level>> ELSE <<>>)

\* the rest of addBreadcrumb once the awaited import has settled
breadcrumbAfterImport(level, importOk, callOk) ==
    IF importOk /\ callOk THEN <<"recorded:" \o level>> ELSE <<>>

\* an interval fires: the callback up to its first await
TickFires ==
    \E t \in timers, halves \in HeapUsedHalfMBs, callOk \in BOOLEAN :
        /\ Len(ticks) < MaxTicks
        /\ sentryModule = "null" => callOk
        /\ ticks' = Append(ticks, [heapUsedMB |-> heapUsedMB(halves),
                                   thresholdMB |-> t.thresholdMB,
                                   phase |-> "info",
                                   importing |-> sentryModule = "null",
                                   did |-> <<"addBreadcrumb:info">>])
        /\ memOut' = breadcrumbCall("info", sentryModule, callOk)
        /\ memEvent' = [NoMemEvent EXCEPT !.fn = "tick"]
        /\ lastTick' = NoTick
        /\ UNCHANGED <<timers, memoryMonitorInterval, sentryModule>>
        /\ OtherThanMemoryUnchanged

RemoveAt(seq, i) == SubSeq(seq, 1, i - 1) \o SubSeq(seq, i + 1, Len(seq))

\* the await of a tick's addBreadcrumb ends: the callback runs on, to its
\* next await or to its end
TickResumes ==
    \E i \in DOMAIN ticks, importOk \in BOOLEAN, callOk \in BOOLEAN,
       callOk2 \in BOOLEAN :
        LET tk == ticks[i]
            module == IF tk.importing /\ sentryModule = "null"
                      THEN cachedAfterImport(importOk) ELSE sentryModule
            first == IF tk.importing
                     THEN breadcrumbAfterImport(
                              IF tk.phase = "info" THEN "info" ELSE "warning",
                              module = "loaded", callOk)
                     ELSE <<>>
            warns == tk.phase = "info" /\ exceedsThreshold(tk.heapUsedMB, tk.thresholdMB)
        IN /\ tk.importing \/ (importOk /\ callOk)
           /\ (tk.importing /\ ~importOk) => callOk
           /\ (warns /\ module = "loaded") \/ callOk2
           /\ sentryModule' = module
           /\ IF warns
              THEN /\ ticks' = [ticks EXCEPT ![i] =
                                  [tk EXCEPT !.phase = "warning",
                                             !.importing = module = "null",
                                             !.did = @ \o <<"logger.warn",
                                                            "addBreadcrumb:warning">>]]
                   /\ memOut' = first \o <<"logger.warn">> \o
                                  breadcrumbCall("warning", module, callOk2)
                   /\ lastTick' = NoTick
              ELSE /\ ticks' = RemoveAt(ticks, i)
                   /\ memOut' = first
                   /\ lastTick' = [heapUsedMB |-> tk.heapUsedMB,
                                   thresholdMB |-> tk.thresholdMB, did |-> tk.did]
           /\ memEvent' = [NoMemEvent EXCEPT !.fn = "resume"]
           /\ UNCHANGED <<timers, memoryMonitorInterval>>
           /\ OtherThanMemoryUnchanged

(***************************************************************************)
(* useOsPlatform                                                           *)
(***************************************************************************)
Platforms == {"darwin", "win32", "linux"}

HookIds == 1 .. MaxHooks

\* an instance of the hook that has not been mounted yet
NoHook == [status |-> "new", platform |-> "unknown", isMounted |-> FALSE,
           pending |-> FALSE, called |-> FALSE, outcome |-> "none"]

\* useState(() => cachedPlatform || 'unknown')
initialPlatform(cached) == IF cached # "null" THEN cached ELSE "unknown"

\* the effect calls getPlatform unless the cache is set or the API is missing
effectCalls(cached, available) == cached = "null" /\ available

writesCache_Always(h) == TRUE

\* if (isMounted) { cachedPlatform = result; setPlatform(result); }
writesCache(h) == h.isMounted

\* an instance mounts: first render and effect
MountHook ==
    \E i \in HookIds :
        /\ hooks[i].status = "new"
        /\ hooks' = [hooks EXCEPT ![i] =
                       [status |-> "mounted",
                        platform |-> initialPlatform(cachedPlatform),
                        isMounted |-> effectCalls(cachedPlatform, apiAvailable),
                        pending |-> effectCalls(cachedPlatform, apiAvailable),
                        called |-> effectCalls(cachedPlatform, apiAvailable),
                        outcome |-> "none"]]
        /\ UNCHANGED <<cachedPlatform, apiAvailable>>
        /\ UNCHANGED <<deleteVars, eraseVars, worktreeVars, mergeVars, sentryVars,
                       uiVars, envVars, lastEvent, calls>>

\* an instance unmounts: the cleanup of the effect
UnmountHook ==
    \E i \in HookIds :
        /\ hooks[i].status = "mounted"
        /\ hooks' = [hooks EXCEPT ![i].status = "unmounted", ![i].isMounted = FALSE]
        /\ UNCHANGED <<cachedPlatform, apiAvailable>>
        /\ UNCHANGED <<deleteVars, eraseVars, worktreeVars, mergeVars, sentryVars,
                       uiVars, envVars, lastEvent, calls>>

\* getPlatform resolves for an instance
GetPlatformResolved ==
    \E i \in HookIds, result \in Platforms :
        /\ hooks[i].pending
        /\ IF writesCache(hooks[i])
           THEN /\ cachedPlatform' = result
                /\ hooks' = [hooks EXCEPT ![i].pending = FALSE,
                                          ![i].outcome = result,
                                          ![i].platform =
                                              IF hooks[i].status = "mounted"
                                              THEN result ELSE @]
           ELSE /\ hooks' = [hooks EXCEPT ![i].pending = FALSE, ![i].outcome = result]
                /\ UNCHANGED cachedPlatform
        /\ UNCHANGED apiAvailable
        /\ UNCHANGED <<deleteVars, eraseVars, worktreeVars, mergeVars, sentryVars,
                       uiVars, envVars, lastEvent, calls>>

\* getPlatform rejects for an instance
GetPlatformRejected ==
    \E i \in HookIds :
        /\ hooks[i].pending
        /\ hooks' = [hooks EXCEPT ![i].pending = FALSE,
                                  ![i].outcome = "rejected",
                                  ![i].platform = IF hooks[i].isMounted
                                                  THEN "unknown" ELSE @]
        /\ UNCHANGED <<cachedPlatform, apiAvailable>>
        /\ UNCHANGED <<deleteVars, eraseVars, worktreeVars, mergeVars, sentryVars,
                       uiVars, envVars, lastEvent, calls>>

(***************************************************************************)
(* uiStore                                                                 *)
(***************************************************************************)
\* the values a field of each type takes; "null" stands for null in
\* string | null
Values ==
    [boolean |-> BOOLEAN,
     FocusArea |-> {"main", "sidebar", "right"},
     RightPanelTab |-> {"files", "history", "autorun"},
     nullableString |-> {"null", "id-1"},
     number |-> 0 .. MaxIndex,
     string |-> {"", "abc"}]

\* updater functions (prev) => next that a caller may pass for a field of each
\* type, by name
Updaters ==
    [boolean |-> {"not"},
     FocusArea |-> {"keep"},
     RightPanelTab |-> {"keep"},
     nullableString |-> {"toNull"},
     number |-> {"inc"},
     string |-> {"clear"}]

\* the updater function applied to the previous value
Apply(fn, prev) ==
    CASE fn = "not" -> ~prev
      [] fn = "keep" -> prev
      [] fn = "toNull" -> "null"
      [] fn = "inc" -> IF prev < MaxIndex THEN prev + 1 ELSE prev
      [] fn = "clear" -> ""

\* the argument of a setter: a value, or an updater function
Value(v) == [kind |-> "value", value |-> v, fn |-> ""]

Updater(fn) == [kind |-> "function", value |-> "", fn |-> fn]

NoArg == [kind |-> "none", value |-> "", fn |-> ""]

\* resolve(valOrFn, prev)
resolve(valOrFn, prev) ==
    IF valOrFn.kind = "function" THEN Apply(valOrFn.fn, prev) ELSE valOrFn.value

InitialUiState ==
    [leftSidebarOpen |-> TRUE,
     rightPanelOpen |-> TRUE,
     activeFocus |-> "main",
     activeRightTab |-> "files",
     bookmarksCollapsed |-> FALSE,
     groupChatsExpanded |-> TRUE,
     showUnreadOnly |-> FALSE,
     preFilterActiveTabId |-> "null",
     preTerminalFileTabId |-> "null",
     selectedSidebarIndex |-> 0,
     selectedFileIndex |-> 0,
     fileTreeFilter |-> "",
     fileTreeFilterOpen |-> FALSE,
     flashNotification |-> "null",
     successFlashNotification |-> "null",
     outputSearchOpen |-> FALSE,
     outputSearchQuery |-> "",
     draggingSessionId |-> "null",
     editingGroupId |-> "null",
     editingSessionId |-> "null"]

set_Replace(state, partial) ==
    [f \in DOMAIN state |->
        IF f \in DOMAIN partial THEN partial[f]
        ELSE InitialUiState[f]]

\* zustand's set with a partial state: the fields of the partial state are
\* merged into the store
set(state, partial) ==
    [f \in DOMAIN state |-> IF f \in DOMAIN partial THEN partial[f] ELSE state[f]]

NoUiCall == [action |-> "none", arg |-> NoArg]

\* an action of the store is called: what it does to the store and the call log
UiCall(action, arg, partial) ==
    /\ uiSteps < MaxUiSteps
    /\ uiSteps' = uiSteps + 1
    /\ uiStore' = set(uiStore, partial)
    /\ uiCall' = [action |-> action, arg |-> arg]
    /\ UNCHANGED <<deleteVars, eraseVars, worktreeVars, mergeVars, sentryVars,
                   hookVars, envVars, lastEvent, calls>>

\* an action (v) => set((s) => ({ field: resolve(v, s.field) })), called with
\* a value or with an updater function
Setter(action, field, type) ==
    \/ \E v \in Values[type] :
            UiCall(action, Value(v), [f \in {field} |-> resolve(Value(v), uiStore[field])])
    \/ \E fn \in Updaters[type] :
            UiCall(action, Updater(fn), [f \in {field} |-> resolve(Updater(fn), uiStore[field])])

\* an action () => set((s) => ({ field: !s.field }))
Toggle(action, field) ==
    UiCall(action, NoArg, [f \in {field} |-> ~uiStore[field]])

setLeftSidebarOpen ==
    Setter("setLeftSidebarOpen", "leftSidebarOpen", "boolean")

toggleLeftSidebar ==
    Toggle("toggleLeftSidebar", "leftSidebarOpen")

setRightPanelOpen ==
    Setter("setRightPanelOpen", "rightPanelOpen", "boolean")

toggleRightPanel ==
    Toggle("toggleRightPanel", "rightPanelOpen")

setActiveFocus ==
    Setter("setActiveFocus", "activeFocus", "FocusArea")

setActiveRightTab ==
    Setter("setActiveRightTab", "activeRightTab", "RightPanelTab")

setBookmarksCollapsed ==
    Setter("setBookmarksCollapsed", "bookmarksCollapsed", "boolean")

toggleBookmarksCollapsed ==
    Toggle("toggleBookmarksCollapsed", "bookmarksCollapsed")

setGroupChatsExpanded ==
    Setter("setGroupChatsExpanded", "groupChatsExpanded", "boolean")

toggleGroupChatsExpanded ==
    Toggle("toggleGroupChatsExpanded", "groupChatsExpanded")

setShowUnreadOnly ==
    Setter("setShowUnreadOnly", "showUnreadOnly", "boolean")

toggleShowUnreadOnly ==
    Toggle("toggleShowUnreadOnly", "showUnreadOnly")

setPreFilterActiveTabId ==
    \E id \in Values["nullableString"] :
        UiCall("setPreFilterActiveTabId", Value(id), [preFilterActiveTabId |-> id])

setPreTerminalFileTabId ==
    \E id \in Values["nullableString"] :
        UiCall("setPreTerminalFileTabId", Value(id), [preTerminalFileTabId |-> id])

setSelectedSidebarIndex ==
    Setter("setSelectedSidebarIndex", "selectedSidebarIndex", "number")

setSelectedFileIndex ==
    Setter("setSelectedFileIndex", "selectedFileIndex", "number")

setFileTreeFilter ==
    Setter("setFileTreeFilter", "fileTreeFilter", "string")

setFileTreeFilterOpen ==
    Setter("setFileTreeFilterOpen", "fileTreeFilterOpen", "boolean")

setFlashNotification ==
    Setter("setFlashNotification", "flashNotification", "nullableString")

setSuccessFlashNotification ==
    Setter("setSuccessFlashNotification", "successFlashNotification", "nullableString")

setOutputSearchOpen ==
    Setter("setOutputSearchOpen", "outputSearchOpen", "boolean")

setOutputSearchQuery ==
    Setter("setOutputSearchQuery", "outputSearchQuery", "string")

setDraggingSessionId ==
    Setter("setDraggingSessionId", "draggingSessionId", "nullableString")

setEditingGroupId ==
    Setter("setEditingGroupId", "editingGroupId", "nullableString")

setEditingSessionId ==
    Setter("setEditingSessionId", "editingSessionId", "nullableString")

(***************************************************************************)
(* Environment of spawned processes                                        *)
(***************************************************************************)
EnvKeys == {"DEBUG", "API_KEY"}

EnvValues == {"", "a", "b"}

\* the environments over some of the keys
Envs == UNION {[ks -> EnvValues] : ks \in SUBSET EnvKeys}

applyLayer_FirstWins(env, layer) ==
    [k \in DOMAIN env \cup DOMAIN layer |->
        IF k \in DOMAIN env THEN env[k] ELSE layer[k]]

\* a layer applied on top of an environment: the layer's value wins
applyLayer(env, layer) ==
    [k \in DOMAIN env \cup DOMAIN layer |->
        IF k \in DOMAIN layer THEN layer[k] ELSE env[k]]

\* system defaults, then the global variables of Settings, then the
\* session-specific variables
buildEnv(system, global, session) ==
    applyLayer(applyLayer(system, global), session)

NoProcess == [spawned |-> FALSE, env |-> <<>>, count |-> 0]

OtherThanEnvUnchanged ==
    UNCHANGED <<deleteVars, eraseVars, worktreeVars, mergeVars, sentryVars,
                hookVars, uiVars, lastEvent, calls>>

\* a variable of the global Settings is set or removed
SetGlobalEnv ==
    \E env \in Envs :
        /\ env # globalEnv
        /\ globalEnv' = env
        /\ UNCHANGED <<systemEnv, sessionEnv, processEnv>>
        /\ OtherThanEnvUnchanged

\* a session-specific variable is set or removed
SetSessionEnv ==
    \E env \in Envs :
        /\ env # sessionEnv
        /\ sessionEnv' = env
        /\ UNCHANGED <<systemEnv, globalEnv, processEnv>>
        /\ OtherThanEnvUnchanged

\* Maestro spawns a process
SpawnProcess ==
    /\ processEnv.count < MaxSpawns
    /\ processEnv' = [spawned |-> TRUE,
                      env |-> buildEnv(systemEnv, globalEnv, sessionEnv),
                      count |-> processEnv.count + 1]
    /\ UNCHANGED <<systemEnv, globalEnv, sessionEnv>>
    /\ OtherThanEnvUnchanged

(***************************************************************************)
(* Initial states and specifications                                       *)
(***************************************************************************)
DeleteIdle == rev = 1 /\ agentName = <<>> /\ confirmationText = <<>>

EraseIdle == sessionName = <<>> /\ typedName = <<>>

\* no session but the active one, worktrees not configured, toggle off
WorktreeIdle ==
    /\ sessions = <<>>
    /\ basePath = ""
    /\ worktreeTarget = NullTarget
    /\ selectedValue = <<>>
    /\ availableWorktrees = {}
    /\ isScanning = FALSE
    /\ scans = {}
    /\ createPROnCompletion = FALSE
    /\ lastScan = NoScan
    /\ sshRemoteId = ""
    /\ mounted = FALSE
    /\ emitted = <<>>

MergeIdle ==
    /\ mtSessions = [id \in {"session-1"} |->
                       [aiTabs |-> 1, state |-> "idle", toolType |-> "claude-code"]]
    /\ activeSessionId = "session-1"
    /\ mergeSessionModalOpen = FALSE
    /\ sendToAgentModalOpen = FALSE
    /\ transferSourceAgent = "null"
    /\ transferTargetAgent = "null"
    /\ transferState = "idle"
    /\ pendingTransfer = "none"
    /\ spawnPending = {}
    /\ spawned = {}
    /\ resetTimer = FALSE
    /\ sendResult = NoResult

MemoryIdle ==
    /\ memoryMonitorInterval = 0
    /\ timers = {}
    /\ ticks = <<>>
    /\ memOut = <<>>
    /\ lastTick = NoTick
    /\ memEvent = NoMemEvent

SentryIdle ==
    /\ sentryModule = "null"
    /\ sentryReports = <<>>
    /\ sentryOutcome = NoOutcome
    /\ MemoryIdle

UiIdle ==
    /\ uiStore = InitialUiState
    /\ uiCall = NoUiCall
    /\ uiSteps = 0

EnvIdle ==
    /\ systemEnv = <<>>
    /\ globalEnv = <<>>
    /\ sessionEnv = <<>>
    /\ processEnv = NoProcess

PlatformIdle ==
    /\ cachedPlatform = "null"
    /\ hooks = [i \in HookIds |-> NoHook]
    /\ apiAvailable = TRUE
    /\ UiIdle
    /\ EnvIdle

ModalIdle == lastEvent = NoEvent /\ calls = <<>>

\* DeleteAgentConfirmModal mounted with any agent name, nothing typed
InitDelete ==
    /\ rev \in Revisions
    /\ agentName \in Strings
    /\ confirmationText = <<>>
    /\ ModalIdle
    /\ EraseIdle
    /\ WorktreeIdle
    /\ MergeIdle
    /\ SentryIdle
    /\ PlatformIdle

NextDelete ==
    \/ setConfirmationText
    \/ ClickCancel
    \/ KeyDownCancel
    \/ ClickX
    \/ PressEscape
    \/ ClickAgentOnly
    \/ KeyDownAgentOnly
    \/ ClickAgentAndWorkDir
    \/ KeyDownAgentAndWorkDir
    \/ KeyDownInput

SpecDelete == InitDelete /\ [][NextDelete]_vars

\* EraseConfirmationModal mounted with any session name, nothing typed
InitErase ==
    /\ sessionName \in Strings
    /\ typedName = <<>>
    /\ ModalIdle
    /\ DeleteIdle
    /\ WorktreeIdle
    /\ MergeIdle
    /\ SentryIdle
    /\ PlatformIdle

NextErase ==
    \/ setTypedName
    \/ EraseClickCancel
    \/ EraseKeyDownCancel
    \/ EraseClickX
    \/ ErasePressEscape
    \/ EraseClickConfirm
    \/ EraseKeyDownConfirm
    \/ EraseKeyDownInput

SpecErase == InitErase /\ [][NextErase]_vars

\* WorktreeRunSection mounted with the toggle off or on; the scan effect has
\* run once
InitWorktree ==
    /\ sessions \in {<<>>} \cup {<<s>> : s \in SessionRecords}
    /\ basePath \in BasePaths
    /\ sshRemoteId \in SshRemoteIds
    /\ worktreeTarget \in {NullTarget, Target("create-new", <<>>, <<>>, FALSE)}
    /\ selectedValue = <<>>
    /\ createPROnCompletion = FALSE
    /\ mounted = TRUE
    /\ emitted = <<>>
    /\ availableWorktrees = {}
    /\ IF ~scanEffectStarts(worktreeTarget, basePath)
       THEN /\ scans = {}
            /\ isScanning = FALSE
            /\ lastScan = NoScan
       ELSE /\ scans = {[openPaths |-> {s.cwd : s \in Range(worktreeChildren(sessions))},
                         cancelled |-> FALSE, stale |-> FALSE, latest |-> TRUE]}
            /\ isScanning = TRUE
            /\ lastScan = ScanStarted(basePath, sshRemoteId)
    /\ ModalIdle
    /\ DeleteIdle
    /\ EraseIdle
    /\ MergeIdle
    /\ SentryIdle
    /\ PlatformIdle

NextWorktree ==
    \/ handleToggle
    \/ OpenSession
    \/ CloseSession
    \/ UpdateSession
    \/ SetBasePath
    \/ SetSshRemote
    \/ Unmount
    \/ ScanResolved
    \/ ScanRejected

SpecWorktree == InitWorktree /\ [][NextWorktree]_vars

\* the selector and the checkbox of the section, with the toggle and the scans
NextWorktreeSelect ==
    \/ handleToggle
    \/ handleSelectChange
    \/ handlePRChange
    \/ ScanResolved
    \/ ScanRejected

SpecWorktreeSelect == InitWorktree /\ [][NextWorktreeSelect]_vars

\* the hook rendered with the active session alone or with a second session,
\* the active session with or without a tab
InitMergeTransfer ==
    /\ \E present \in {{"session-1"}, MTSessionIds}, sourceTabs \in {0, 1} :
          mtSessions = [id \in present |->
                          IF id = "session-1"
                          THEN [aiTabs |-> sourceTabs, state |-> "idle",
                                toolType |-> "claude-code"]
                          ELSE [aiTabs |-> 1, state |-> "idle", toolType |-> "codex"]]
    /\ activeSessionId = "session-1"
    /\ mergeSessionModalOpen = FALSE
    /\ sendToAgentModalOpen = FALSE
    /\ transferSourceAgent = "null"
    /\ transferTargetAgent = "null"
    /\ transferState = "idle"
    /\ pendingTransfer = "none"
    /\ spawnPending = {}
    /\ spawned = {}
    /\ resetTimer = FALSE
    /\ sendResult = NoResult
    /\ ModalIdle
    /\ DeleteIdle
    /\ EraseIdle
    /\ WorktreeIdle
    /\ SentryIdle
    /\ PlatformIdle

NextMergeTransfer ==
    \/ handleMergeWith
    \/ handleOpenSendToAgentModal
    \/ handleMerge
    \/ mergeOnSessionCreated
    \/ mergeOnMergeComplete
    \/ transferOnSessionCreated
    \/ ResetTimerFires
    \/ handleCancelTransfer
    \/ handleCompleteTransfer
    \/ handleSendToAgent
    \/ SendToAgentSucceeds
    \/ SendToAgentFails
    \/ SpawnAgent

SpecMergeTransfer == InitMergeTransfer /\ [][NextMergeTransfer]_vars

InitSentry ==
    /\ SentryIdle
    /\ ModalIdle
    /\ DeleteIdle
    /\ EraseIdle
    /\ WorktreeIdle
    /\ MergeIdle
    /\ PlatformIdle

NextSentry == SentryCall

SpecSentry == InitSentry /\ [][NextSentry]_vars

\* the memory monitor, with the Sentry module loaded already or not
InitMemory ==
    /\ sentryModule \in {"null", "loaded"}
    /\ sentryReports = <<>>
    /\ sentryOutcome = NoOutcome
    /\ MemoryIdle
    /\ ModalIdle
    /\ DeleteIdle
    /\ EraseIdle
    /\ WorktreeIdle
    /\ MergeIdle
    /\ PlatformIdle

NextMemory ==
    \/ startMemoryMonitoring
    \/ stopMemoryMonitoring
    \/ TickFires
    \/ TickResumes

SpecMemory == InitMemory /\ [][NextMemory]_vars

InitPlatform ==
    /\ cachedPlatform = "null"
    /\ hooks = [i \in HookIds |-> NoHook]
    /\ apiAvailable \in BOOLEAN
    /\ UiIdle
    /\ EnvIdle
    /\ ModalIdle
    /\ DeleteIdle
    /\ EraseIdle
    /\ WorktreeIdle
    /\ MergeIdle
    /\ SentryIdle

NextPlatform ==
    \/ MountHook
    \/ UnmountHook
    \/ GetPlatformResolved
    \/ GetPlatformRejected

SpecPlatform == InitPlatform /\ [][NextPlatform]_vars

InitUi ==
    /\ UiIdle
    /\ EnvIdle
    /\ cachedPlatform = "null"
    /\ hooks = [i \in HookIds |-> NoHook]
    /\ apiAvailable = TRUE
    /\ ModalIdle
    /\ DeleteIdle
    /\ EraseIdle
    /\ WorktreeIdle
    /\ MergeIdle
    /\ SentryIdle

NextUi ==
    \/ setLeftSidebarOpen
    \/ toggleLeftSidebar
    \/ setRightPanelOpen
    \/ toggleRightPanel
    \/ setActiveFocus
    \/ setActiveRightTab
    \/ setBookmarksCollapsed
    \/ toggleBookmarksCollapsed
    \/ setGroupChatsExpanded
    \/ toggleGroupChatsExpanded
    \/ setShowUnreadOnly
    \/ toggleShowUnreadOnly
    \/ setPreFilterActiveTabId
    \/ setPreTerminalFileTabId
    \/ setSelectedSidebarIndex
    \/ setSelectedFileIndex
    \/ setFileTreeFilter
    \/ setFileTreeFilterOpen
    \/ setFlashNotification
    \/ setSuccessFlashNotification
    \/ setOutputSearchOpen
    \/ setOutputSearchQuery
    \/ setDraggingSessionId
    \/ setEditingGroupId
    \/ setEditingSessionId

SpecUi == InitUi /\ [][NextUi]_vars

\* any system defaults, nothing set in Settings or for the session yet
InitEnv ==
    /\ systemEnv \in Envs
    /\ globalEnv = <<>>
    /\ sessionEnv = <<>>
    /\ processEnv = NoProcess
    /\ UiIdle
    /\ cachedPlatform = "null"
    /\ hooks = [i \in HookIds |-> NoHook]
    /\ apiAvailable = TRUE
    /\ ModalIdle
    /\ DeleteIdle
    /\ EraseIdle
    /\ WorktreeIdle
    /\ MergeIdle
    /\ SentryIdle

NextEnv ==
    \/ SetGlobalEnv
    \/ SetSessionEnv
    \/ SpawnProcess

SpecEnv == InitEnv /\ [][NextEnv]_vars

(***************************************************************************)
(* Properties                                                              *)
(***************************************************************************)
Invoked(cb) == \E i \in DOMAIN calls : calls[i] = cb

\* the typed text and the name are equal once both are trimmed and lower-cased
NormalisedEqual(text, name) == toLowerCase(trim(text)) = toLowerCase(trim(name))

OnAgentAndWorkDir ==
    \/ lastEvent = Ev("click", "AgentAndWorkDir", "")
    \/ lastEvent = Ev("keydown", "AgentAndWorkDir", "Enter")

OnDeleteInputEnter == lastEvent = Ev("keydown", "input", "Enter")

\* C1: DeleteAgentConfirmModal invokes onConfirmAndErase only while the typed
\* text matches the agent name; a click or Enter on 'Agent + Work Directory',
\* or Enter in the input, while the text does not match invokes no callback
\* at all (so neither onConfirmAndErase nor onClose).
C1_EraseOnlyOnMatch ==
    /\ Invoked("onConfirmAndErase") => NormalisedEqual(confirmationText, agentName)
    /\ (OnAgentAndWorkDir \/ OnDeleteInputEnter)
         /\ ~NormalisedEqual(confirmationText, agentName)
       => calls = <<>>

C1_Witness ==
    /\ lastEvent = Ev("keydown", "AgentAndWorkDir", "Enter")
    /\ confirmationText # <<>>
    /\ ~NormalisedEqual(confirmationText, agentName)
    /\ calls = <<>>

OnEraseConfirm ==
    \/ lastEvent = Ev("click", "Confirm", "")
    \/ lastEvent = Ev("keydown", "Confirm", "Enter")
    \/ lastEvent = Ev("keydown", "input", "Enter")

\* C2: EraseConfirmationModal invokes onConfirm only while the typed text is
\* identical to sessionName; a click or Enter on 'Yes, Erase Directory', or
\* Enter in the input, invokes onConfirm exactly once when they are identical
\* and invokes nothing otherwise.
C2_ConfirmOnlyOnIdentical ==
    /\ Invoked("onConfirm") => typedName = sessionName
    /\ OnEraseConfirm =>
         calls = IF typedName = sessionName THEN <<"onConfirm">> ELSE <<>>

C2_Witness ==
    /\ lastEvent = Ev("keydown", "input", "Enter")
    /\ typedName # <<>>
    /\ typedName = sessionName
    /\ calls = <<"onConfirm">>

C4_CaseSensitive ==
    (confirmationText # agentName
        /\ toLowerCase(confirmationText) = toLowerCase(agentName))
      => agentAndWorkDirDisabled(confirmationText, agentName)

\* C5: the 'Yes, Erase Directory' button of EraseConfirmationModal is enabled
\* exactly when the typed text is identical to sessionName.
C5_EnabledIffIdentical ==
    ~eraseConfirmDisabled(typedName, sessionName) <=> typedName = sessionName

C5_Witness ==
    /\ lastEvent = Ev("change", "input", "")
    /\ typedName # sessionName
    /\ NormalisedEqual(typedName, sessionName)
    /\ eraseConfirmDisabled(typedName, sessionName)

OnAgentOnly ==
    \/ lastEvent = Ev("click", "AgentOnly", "")
    \/ lastEvent = Ev("keydown", "AgentOnly", "Enter")

\* C8: 'Agent Only' can be activated whatever the typed text is; a click or
\* Enter on it invokes onConfirm and then onClose, and never
\* onConfirmAndErase.
C8_AgentOnly ==
    /\ ENABLED ClickAgentOnly
    /\ ENABLED KeyDownAgentOnly
    /\ OnAgentOnly => calls = <<"onConfirm", "onClose">>

C8_Witness ==
    /\ lastEvent = Ev("keydown", "AgentOnly", "Enter")
    /\ confirmationText # <<>>
    /\ ~NormalisedEqual(confirmationText, agentName)
    /\ calls = <<"onConfirm", "onClose">>

OnDeleteClose ==
    \/ lastEvent = Ev("click", "Cancel", "")
    \/ lastEvent = Ev("keydown", "Cancel", "Enter")
    \/ lastEvent = Ev("click", "X", "")
    \/ lastEvent = Ev("keydown", "Modal", "Escape")

\* C9: Cancel (click or Enter), the X button and Escape can be used in every
\* state of DeleteAgentConfirmModal and each invokes onClose exactly once and
\* nothing else, whatever text has been typed.
C9_CloseOnly ==
    /\ ENABLED ClickCancel
    /\ ENABLED KeyDownCancel
    /\ ENABLED ClickX
    /\ ENABLED PressEscape
    /\ OnDeleteClose => calls = <<"onClose">>

C9_Witness ==
    /\ lastEvent = Ev("keydown", "Cancel", "Enter")
    /\ NormalisedEqual(confirmationText, agentName)
    /\ confirmationText # <<>>
    /\ calls = <<"onClose">>

\* the working directories of the sessions open in Maestro
OpenCwds == {s.cwd : s \in Range(sessions)}

\* the working directories of the sessions listed under "Open in Maestro"
OpenChildCwds == {s.cwd : s \in Range(worktreeChildren(sessions))}

\* C10: when a worktree scan completes, the Available Worktrees list holds
\* exactly the scanned entries whose path is not the working directory of a
\* session open in Maestro: only scanned entries are listed, no listed entry
\* is the working directory of a session shown as open, and every scanned
\* entry that is no open session's working directory is listed.
C10_ListExcludesOpenSessions ==
    (lastScan.settled = "resolved" /\ lastScan.applied) =>
        /\ availableWorktrees \subseteq lastScan.result
        /\ \A p \in availableWorktrees : p \notin OpenChildCwds
        /\ \A p \in lastScan.result : p \notin OpenCwds => p \in availableWorktrees

\* C11: a scan that is stale (the toggle was switched off, the base path, the
\* SSH remote or the number of worktree children changed, or the section
\* unmounted, after it was started) or that is not the most recently started
\* one never writes availableWorktrees or isScanning when it settles.
C11_StaleScanNeverWrites == ~lastScan.staleWrite

C11_Witness ==
    /\ lastScan.settled = "resolved"
    /\ ~lastScan.applied
    /\ mounted
    /\ \E sc \in scans : ~sc.cancelled /\ sc.latest

\* C12: while the toggle is off or no base path is configured no scan is
\* started and the list of available worktrees is empty; a scan that is
\* started is started with the toggle on, for the configured base path and the
\* session's SSH remote id.
C12_ScanOnlyWhenEnabled ==
    /\ (~isEnabled(worktreeTarget) \/ basePath = "")
         => (lastScan.settled # "started" /\ availableWorktrees = {})
    /\ lastScan.settled = "started"
         => /\ isEnabled(worktreeTarget)
            /\ basePath # ""
            /\ lastScan.basePath = basePath
            /\ lastScan.sshRemoteId = sshRemoteId

C12_Witness ==
    /\ lastScan.settled = "started"
    /\ lastScan.sshRemoteId = "remote-1"
    /\ emitted # <<>>

ExpectedTarget(v, pr) ==
    IF v = <<"__create_new__">>
    THEN [mode |-> "create-new", sessionId |-> <<>>, worktreePath |-> <<>>,
          createPROnCompletion |-> pr]
    ELSE IF Len(v) = 2 /\ v[1] = "__closed__:"
         THEN [mode |-> "existing-closed", sessionId |-> <<>>,
               worktreePath |-> <<v[2]>>, createPROnCompletion |-> pr]
         ELSE [mode |-> "existing-open", sessionId |-> v, worktreePath |-> <<>>,
               createPROnCompletion |-> pr]

\* a step in which the selection changes while the toggle stays on
SelectionStep ==
    /\ isEnabled(worktreeTarget)
    /\ isEnabled(worktreeTarget')
    /\ selectedValue' # selectedValue

InCalls(cs, cb) == \E i \in DOMAIN cs : cs[i] = cb

\* C14: handleMerge closes the merge modal and runs executeMerge, and shows
\* the error toast 'Merge Failed' exactly when the merge reports a failure.
C14_MergeFailedToastIffFailure ==
    lastEvent.target = "handleMerge"
        => /\ ~mergeSessionModalOpen
           /\ Len(calls) >= 2
           /\ calls[1] = "setMergeSessionModalOpen(false)"
           /\ calls[2] = "executeMerge"
           /\ InCalls(calls, "notifyToast:error:Merge Failed")
                <=> lastEvent.key = "failure"

C14_Witness ==
    /\ lastEvent = Ev("call", "handleMerge", "failure")
    /\ InCalls(calls, "notifyToast:error:Merge Failed")

\* C15: when handleSendToAgent succeeds for an existing target, the
\* send-to-agent modal is closed, the target is the active session, the
\* success toast 'Context Sent' is shown, the target has one more tab and is
\* busy, the transfer state is reset, and the agent process is spawned only
\* in a later step, when the session state has been updated.
C15_SendToAgentSuccess ==
    [][/\ (pendingTransfer # "none" /\ sendResult'.success)
            => /\ ~sendToAgentModalOpen'
               /\ activeSessionId' = pendingTransfer
               /\ sendResult'.newSessionId = pendingTransfer
               /\ InCalls(calls', "notifyToast:success:Context Sent")
               /\ InCalls(calls', "resetTransfer")
               /\ transferState' = "idle"
               /\ mtSessions'[pendingTransfer].aiTabs
                     = mtSessions[pendingTransfer].aiTabs + 1
               /\ mtSessions'[pendingTransfer].state = "busy"
               /\ spawned' = spawned
       /\ \A id \in spawned' \ spawned :
               /\ mtSessions[id].state = "busy"
               /\ mtSessions' = mtSessions]_vars

C15_Witness ==
    /\ lastEvent = Ev("settle", "handleSendToAgent", "success")
    /\ sendResult.success
    /\ activeSessionId = "target-session"
    /\ mtSessions["target-session"].aiTabs = 2
    /\ "target-session" \in spawnPending

SendToAgentCalled ==
    /\ pendingTransfer = "none"
    /\ lastEvent'.type = "call"
    /\ lastEvent'.target = "handleSendToAgent"

NothingTransferred ==
    /\ mtSessions' = mtSessions
    /\ spawned' = spawned
    /\ spawnPending' = spawnPending
    /\ pendingTransfer' = "none"

\* C16: handleSendToAgent with a target id that is in no session returns the
\* failure 'Target session not found', and with an active session that has no
\* source tab the failure 'Source tab not found'; in both cases no tab is
\* added and no process is spawned.
C16_SendToAgentRejects ==
    [][SendToAgentCalled =>
         /\ lastEvent'.key \notin DOMAIN mtSessions
              => /\ sendResult' = Failure("Target session not found")
                 /\ NothingTransferred
         /\ (lastEvent'.key \in DOMAIN mtSessions
               /\ mtSessions[activeSessionId].aiTabs = 0)
              => /\ sendResult' = Failure("Source tab not found")
                 /\ NothingTransferred]_vars

C16_Witness ==
    /\ lastEvent = Ev("call", "handleSendToAgent", "nonexistent-session")
    /\ sendResult = Failure("Target session not found")
    /\ "target-session" \in DOMAIN mtSessions
    /\ spawned # {}

\* C17: handleCancelTransfer calls the transfer's cancel and
\* handleCompleteTransfer calls the transfer's reset; after either,
\* transferSourceAgent and transferTargetAgent are null.
C17_CancelAndCompleteClear ==
    /\ lastEvent.target = "handleCancelTransfer"
         => /\ InCalls(calls, "cancelTransfer")
            /\ transferSourceAgent = "null"
            /\ transferTargetAgent = "null"
    /\ lastEvent.target = "handleCompleteTransfer"
         => /\ InCalls(calls, "resetTransfer")
            /\ transferSourceAgent = "null"
            /\ transferTargetAgent = "null"

C17_Witness ==
    /\ lastEvent = Ev("call", "handleCancelTransfer", "claude-code")
    /\ transferSourceAgent = "null"
    /\ transferTargetAgent = "null"

\* C18: the merge's onSessionCreated and onMergeComplete and the transfer's
\* onSessionCreated switch the active session and show a success toast; the
\* transfer's callback does not reset the transfer itself: the reset is made
\* by the timer it arms, so never before the navigation.
C18_CallbacksNavigateThenReset ==
    [][/\ lastEvent'.target = "merge.onSessionCreated"
            => /\ activeSessionId' = lastEvent'.key
               /\ InCalls(calls', "notifyToast:success:Session Merged")
       /\ lastEvent'.target = "merge.onMergeComplete"
            => /\ activeSessionId' = lastEvent'.key
               /\ InCalls(calls', "notifyToast:success:Context Merged")
       /\ lastEvent'.target = "transfer.onSessionCreated"
            => /\ activeSessionId' = lastEvent'.key
               /\ InCalls(calls', "notifyToast:success:Context Transferred")
               /\ ~InCalls(calls', "resetTransfer")
               /\ resetTimer'
               /\ UNCHANGED <<transferState, transferSourceAgent, transferTargetAgent>>
       /\ lastEvent'.type = "timer"
            => /\ resetTimer
               /\ InCalls(calls', "resetTransfer")
               /\ transferState' = "idle"]_vars

C18_Witness ==
    /\ lastEvent = Ev("timer", "resetTransfer", "")
    /\ activeSessionId = NewSessionId
    /\ ~sendToAgentModalOpen
    /\ transferState = "idle"

\* C19: a call of captureException, captureMessage or addBreadcrumb never
\* rejects, whether the Sentry module fails to load or its function throws; a
\* load that failed leaves the cached module unset, and a call made while it
\* is unset tries the load again.
C19_SentryNeverThrows ==
    [][/\ sentryOutcome'.settled # "rejected"
       /\ sentryOutcome'.importFailed => sentryModule' = "null"
       /\ sentryModule = "null" => sentryOutcome'.importTried]_vars

C19_Witness ==
    /\ sentryOutcome.importFailed
    /\ sentryOutcome.settled = "resolved"
    /\ sentryOutcome.fn = "captureException"
    /\ sentryModule = "null"

Mounts(i) == hooks[i].status = "new" /\ hooks'[i].status = "mounted"

Settles(i) == hooks[i].pending /\ ~hooks'[i].pending

\* C20: an instance of useOsPlatform returns 'unknown' until its getPlatform
\* call completes and then the platform reported; once the platform is
\* cached an instance that mounts returns the cached value on its first
\* render and calls nothing; a call that fails, or that completes after its
\* instance unmounted, does not write the cache.
C20_PlatformCache ==
    [][\A i \in HookIds :
         /\ (Mounts(i) /\ cachedPlatform # "null")
              => /\ hooks'[i].platform = cachedPlatform
                 /\ ~hooks'[i].called
                 /\ ~hooks'[i].pending
         /\ (Mounts(i) /\ cachedPlatform = "null")
              => hooks'[i].platform = "unknown"
         /\ hooks'[i].pending => hooks'[i].platform = "unknown"
         /\ (Settles(i) /\ hooks[i].status = "mounted"
               /\ hooks'[i].outcome \in Platforms)
              => /\ hooks'[i].platform = hooks'[i].outcome
                 /\ cachedPlatform' = hooks'[i].outcome
         /\ (Settles(i) /\ (hooks'[i].outcome = "rejected"
                              \/ hooks[i].status = "unmounted"))
              => cachedPlatform' = cachedPlatform]_vars

C20_Witness ==
    \E i, k \in HookIds :
        /\ hooks[i].status = "unmounted"
        /\ hooks[i].outcome \in Platforms
        /\ hooks[i].platform = "unknown"
        /\ hooks[k].status = "mounted"
        /\ ~hooks[k].called
        /\ cachedPlatform \in Platforms
        /\ hooks[k].platform = cachedPlatform

\* C21: at most one monitoring interval is active: a start while one is
\* running changes nothing and ignores its arguments, a stop clears the
\* running interval (and does nothing when none is running), and a start
\* while none is running creates exactly one interval, with its arguments.
C21_AtMostOneInterval ==
    [][/\ Cardinality(timers') <= 1
       /\ memoryMonitorInterval' = 0 <=> timers' = {}
       /\ (memEvent'.fn = "start" /\ memoryMonitorInterval # 0)
            => UNCHANGED <<timers, memoryMonitorInterval>>
       /\ (memEvent'.fn = "start" /\ memoryMonitorInterval = 0)
            => /\ Cardinality(timers') = 1
               /\ \A t \in timers' : /\ t.id = memoryMonitorInterval'
                                     /\ t.thresholdMB = memEvent'.thresholdMB
                                     /\ t.intervalMs = memEvent'.intervalMs
       /\ memEvent'.fn = "stop"
            => (timers' = {} /\ memoryMonitorInterval' = 0)]_vars

C21_Witness ==
    /\ memEvent.fn = "start"
    /\ \E t \in timers : /\ t.thresholdMB # memEvent.thresholdMB
                         /\ t.intervalMs # memEvent.intervalMs
    /\ Cardinality(timers) = 1

MonitorOutputs == {"recorded:info", "recorded:warning", "logger.warn"}

\* C26: while the monitor is stopped (after stopMemoryMonitoring and before
\* the next startMemoryMonitoring) no 'memory' breadcrumb is recorded and no
\* high-memory warning is logged, even by a tick that was awaiting
\* addBreadcrumb when the monitor was stopped.
C26_NoOutputAfterStop ==
    memoryMonitorInterval = 0 => \A i \in DOMAIN memOut : memOut[i] \notin MonitorOutputs

\* C30: a tick calls addBreadcrumb once at level info, and then, exactly when
\* the heap used in whole MB is strictly greater than thresholdMB, logs a
\* warning and calls addBreadcrumb a second time, at level warning; a heap
\* equal to the threshold gives no warning.
C30_WarningIffAboveThreshold ==
    lastTick # NoTick
        => lastTick.did = IF lastTick.heapUsedMB > lastTick.thresholdMB
                          THEN <<"addBreadcrumb:info", "logger.warn",
                                 "addBreadcrumb:warning">>
                          ELSE <<"addBreadcrumb:info">>

C30_Witness ==
    /\ lastTick # NoTick
    /\ lastTick.heapUsedMB = lastTick.thresholdMB
    /\ lastTick.did = <<"addBreadcrumb:info">>

\* the value a key has in a layer: the layer's value when the layer defines the
\* key, else the value handed up from the layers below
Layered(layer, k, below) == IF k \in DOMAIN layer THEN <<layer[k]>> ELSE below

\* C22: in the environment of a spawned process each variable has the
\* session-specific value if one is set, else the value of the global
\* Settings if one is set, else the system default, and is absent when no
\* layer defines it; a value set to the empty string counts as set.
C22_SessionOverGlobalOverSystem ==
    [][processEnv'.count # processEnv.count
        => \A k \in EnvKeys :
            LET want == Layered(sessionEnv, k, Layered(globalEnv, k, Layered(systemEnv, k, <<>>)))
                got == IF k \in DOMAIN processEnv'.env THEN <<processEnv'.env[k]>> ELSE <<>>
            IN  got = want]_vars

C22_Witness ==
    /\ processEnv.spawned
    /\ DOMAIN systemEnv = EnvKeys
    /\ DOMAIN globalEnv = EnvKeys
    /\ DOMAIN sessionEnv = {"DEBUG"}
    /\ sessionEnv["DEBUG"] = ""
    /\ globalEnv["DEBUG"] = "a"
    /\ globalEnv["API_KEY"] = "b"
    /\ systemEnv["API_KEY"] = "a"
    /\ processEnv.env = [k \in EnvKeys |-> IF k = "DEBUG" THEN "" ELSE "b"]

\* the field each action of the store names
NamedField ==
    [setLeftSidebarOpen |-> "leftSidebarOpen",
     toggleLeftSidebar |-> "leftSidebarOpen",
     setRightPanelOpen |-> "rightPanelOpen",
     toggleRightPanel |-> "rightPanelOpen",
     setActiveFocus |-> "activeFocus",
     setActiveRightTab |-> "activeRightTab",
     setBookmarksCollapsed |-> "bookmarksCollapsed",
     toggleBookmarksCollapsed |-> "bookmarksCollapsed",
     setGroupChatsExpanded |-> "groupChatsExpanded",
     toggleGroupChatsExpanded |-> "groupChatsExpanded",
     setShowUnreadOnly |-> "showUnreadOnly",
     toggleShowUnreadOnly |-> "showUnreadOnly",
     setPreFilterActiveTabId |-> "preFilterActiveTabId",
     setPreTerminalFileTabId |-> "preTerminalFileTabId",
     setSelectedSidebarIndex |-> "selectedSidebarIndex",
     setSelectedFileIndex |-> "selectedFileIndex",
     setFileTreeFilter |-> "fileTreeFilter",
     setFileTreeFilterOpen |-> "fileTreeFilterOpen",
     setFlashNotification |-> "flashNotification",
     setSuccessFlashNotification |-> "successFlashNotification",
     setOutputSearchOpen |-> "outputSearchOpen",
     setOutputSearchQuery |-> "outputSearchQuery",
     setDraggingSessionId |-> "draggingSessionId",
     setEditingGroupId |-> "editingGroupId",
     setEditingSessionId |-> "editingSessionId"]

\* the value the named field is to have after a call, from the argument of
\* the call and the previous value of the field
FieldAfter(arg, prev) ==
    CASE arg.kind = "value" -> arg.value
      [] arg.kind = "function" -> Apply(arg.fn, prev)
      [] arg.kind = "none" -> ~prev

\* C23: a call of a uiStore action changes only the field the action names: a
\* setter called with a value leaves the field equal to the value, a setter
\* called with an updater function leaves it equal to the function applied to
\* the previous value, a toggle negates it, and every other field is unchanged.
C23_OnlyNamedFieldChanges ==
    [][uiSteps' # uiSteps
        => LET f == NamedField[uiCall'.action]
           IN  /\ uiStore'[f] = FieldAfter(uiCall'.arg, uiStore[f])
               /\ \A g \in DOMAIN uiStore \ {f} : uiStore'[g] = uiStore[g]]_vars

C23_Witness ==
    /\ uiCall.action = "setSelectedSidebarIndex"
    /\ uiCall.arg.kind = "function"
    /\ uiStore.selectedSidebarIndex = 2
    /\ uiStore.leftSidebarOpen = FALSE
    /\ uiStore.selectedFileIndex = 0

\* C24: once no scan is pending, no entry of the Available Worktrees list has
\* the path of a worktree child that is open now, whatever sessions were
\* opened, closed or changed (also without changing their number) and
\* whatever scans completed before.
C24_NoOpenChildAvailable ==
    (mounted /\ scans = {}) => availableWorktrees \cap OpenChildCwds = {}

\* a scan whose result is still going to be applied is pending
ApplicableScanPending == \E sc \in scans : ~sc.cancelled

\* the "Scanning..." option is rendered
ScanningShown == mounted /\ isEnabled(worktreeTarget) /\ isScanning

\* C25: isScanning is true only while a scan whose result will still be
\* applied is pending; when no such scan is pending isScanning is false and
\* the "Scanning..." placeholder is not shown.
C25_ScanningOnlyWhilePending ==
    (mounted /\ ~ApplicableScanPending) => (~isScanning /\ ~ScanningShown)

\* the ids of the worktree children that are neither busy nor connecting, in
\* the order of the session list
FreeChildIds ==
    LET ch == worktreeChildren(sessions)
        free == {i \in DOMAIN ch : ch[i].state \notin {"busy", "connecting"}}
    IN  [i \in 1 .. Cardinality(free) |->
            ch[CHOOSE k \in free : Cardinality({j \in free : j < k}) = i - 1].id]

\* C27: toggling on selects the first worktree child that is neither busy nor
\* connecting and emits existing-open for it, or selects and emits create-new
\* when there is none; toggling off clears the selection and emits null; the
\* toggle never emits existing-open for a busy or connecting session.
C27_ToggleSelectsFirstFree ==
    emitted # <<>> =>
        LET t == emitted[1]
        IN  /\ Len(emitted) = 1
            /\ t = worktreeTarget
            /\ IF t = NullTarget
               THEN selectedValue = <<>>
               ELSE IF FreeChildIds = <<>>
                    THEN /\ t.mode = "create-new"
                         /\ selectedValue = CREATE_NEW
                    ELSE /\ t.mode = "existing-open"
                         /\ t.sessionId = Str(FreeChildIds[1])
                         /\ selectedValue = t.sessionId
            /\ t.mode = "existing-open" =>
                   \A s \in Range(sessions) :
                       Str(s.id) = t.sessionId => s.state \notin {"busy", "connecting"}

C27_Witness ==
    /\ emitted # <<>>
    /\ emitted[1].mode = "existing-open"
    /\ Len(worktreeChildren(sessions)) = 2
    /\ worktreeChildren(sessions)[1].state = "busy"
    /\ emitted[1].sessionId = Str(worktreeChildren(sessions)[2].id)

\* C28: when a scan that was not superseded fails, the Available Worktrees
\* list becomes empty and isScanning becomes false; no scan is started in its
\* place and nothing is handed to the parent.
C28_FailedScanClearsList ==
    (lastScan.settled = "rejected" /\ lastScan.applied) =>
        /\ availableWorktrees = {}
        /\ ~isScanning
        /\ ~ApplicableScanPending
        /\ emitted = <<>>

C28_Witness ==
    /\ lastScan.settled = "rejected"
    /\ lastScan.applied
    /\ isEnabled(worktreeTarget)
    /\ basePath # ""
    /\ sessions # <<>>

\* the mode that corresponds to a value of the selector
ModeOf(value) ==
    IF value = CREATE_NEW THEN "create-new"
    ELSE IF startsWith(value, CLOSED_PREFIX) THEN "existing-closed"
    ELSE IF value # <<>> THEN "existing-open"
    ELSE "null"

\* C29: whenever the toggle is enabled the parent's target agrees with the
\* local state of the section: its mode is the one of the selected value and
\* its createPROnCompletion is the local checkbox.
C29_ParentAgreesWithLocalState ==
    (mounted /\ isEnabled(worktreeTarget)) =>
        /\ worktreeTarget.mode = ModeOf(selectedValue)
        /\ worktreeTarget.createPROnCompletion = createPROnCompletion

====
